---- MODULE Spec2Model ----
(***************************************************************************)
(* State-machine model of c2corg_api/views/user.py: the registration,      *)
(* login, renew and logout handlers, the credential store they query, the  *)
(* token store of the authentication helper and the process-wide           *)
(* discourse_userid_cache.                                                 *)
(*                                                                         *)
(* Requests are handled by worker threads.  A handler that only touches    *)
(* request-local data between two accesses to shared state is one action;  *)
(* the registration validators and the steps of the logout handler are     *)
(* separate actions so that concurrent requests interleave where the code  *)
(* allows it.                                                              *)
(***************************************************************************)
EXTENDS Integers, Sequences, FiniteSets, TLC

\* ------------------------------------------------------------------ bounds
MaxUsers == 3          \* rows the credential store may hold
MaxTokens == 2         \* tokens the token service may issue
MaxExpire == 1         \* latest token expiry, in ticks after the epoch
TicksPerSecond == 2    \* sub-second resolution of a token's expiry timestamp

Epoch == 0              \* datetime.datetime(1970, 1, 1), in ticks

\* worker threads handling requests concurrently
Threads == {1, 2}
Usernames == {"u1", "u2"}
Emails == {"e1", "e2"}
Passwords == {"p1", "p2"}
\* a JSON password that is not a string: .encode raises on it
NonString == "<non-string>"
Expires == 0..MaxExpire

VARIABLES
    users,                    \* credential store: sequence of User rows, id = index
    tokens,                   \* token store: the active tokens, as [value, userid]
    nextToken,                \* next fresh token value
    discourse_userid_cache,   \* module-level dict: user id -> discourse user id
    pc,                       \* per thread: position in the handler
    req,                      \* per thread: [kind, json] of the request in hand
    loc,                      \* per thread: handler locals (request.errors, request.validated, ...)
    calls,                    \* per thread: calls made to the discourse bridge
    out,                      \* the response sent by the latest step, if it sent one
    lookupDone                \* user ids whose by_external_id has succeeded once

vars == <<users, tokens, nextToken, discourse_userid_cache, pc, req, loc, calls,
          out, lookupDone>>

\* ----------------------------------------------------------------- helpers
EmptyDict == [k \in {} |-> ""]
Put(f, k, v) == [x \in DOMAIN f \cup {k} |-> IF x = k THEN v ELSE f[x]]

NoReq == [kind |-> "none", json |-> [none |-> "none"]]
NoResp == [status |-> 0, body |-> [none |-> "none"]]
NoLoc == [errors |-> <<>>, validated |-> EmptyDict, userid |-> 0, token |-> 0,
          discourse_userid |-> 0, result |-> [none |-> "none"]]
NoToken == [value |-> 0, userid |-> 0, expire |-> 0]
NoOut == [kind |-> "none", json |-> [none |-> "none"], resp |-> NoResp,
          calls |-> <<>>, userid |-> 0, token |-> NoToken]

Err(field, msg) == [location |-> "body", field |-> field, msg |-> msg]
HasErr(errors, field) == \E i \in DOMAIN errors : errors[i].field = field

\* the error response the framework renders from request.errors
ErrorResponse(status, errors) ==
    [status |-> status, body |-> [status |-> "error", errors |-> errors]]

\* password.encode(ENCODING): the bytes of a string password
Encode(p) == "b:" \o p

\* the discourse provider maps each internal user id to one fixed discourse id
ExternalId(userid) == userid + 10

\* a user registered before the process started (a moderator account)
SeedUsers ==
    << [username |-> "u1", email |-> "e1", password |-> Encode("p1"),
        moderator |-> TRUE] >>

\* JSON bodies a client may send
MkJson(fields, optional) ==
    [k \in DOMAIN fields \cup optional |-> IF k \in DOMAIN fields THEN fields[k] ELSE "true"]

RegisterJsons ==
    { MkJson([username |-> u, email |-> e, password |-> p], {})
        : u \in Usernames, e \in Emails, p \in {"p1", NonString} }
    \cup { MkJson([username |-> u, email |-> e], {}) : u \in Usernames, e \in Emails }

LoginOptions ==
    { {}, {"discourse"}, {"discourse", "sso"}, {"discourse", "sso", "sig"},
      {"sso", "sig"} }

LoginJsons ==
    { MkJson([username |-> u, password |-> p], o)
        : u \in Usernames, p \in Passwords, o \in LoginOptions }
    \cup { MkJson([username |-> u], o) : u \in Usernames, o \in LoginOptions }

LogoutJsons == { MkJson(EmptyDict, o) : o \in { {}, {"discourse"} } }

\* ------------------------------------------------------------- validators
\* validate_json_password, on st = [errors, validated]
validate_json_password(json, st) ==
    LET e1 == IF "password" \notin DOMAIN json
              THEN Append(st.errors, Err("password", "Required"))
              ELSE st.errors
    IN  IF "password" \in DOMAIN json /\ json["password"] # NonString
        THEN [st EXCEPT !.errors = e1,
                        !.validated = Put(st.validated, "password",
                                          Encode(json["password"]))]
        ELSE [st EXCEPT !.errors = Append(e1, Err("password", "Invalid"))]

\* DBSession.query(User).filter(attr == value).count()
CountUsers(attrname, value) ==
    Cardinality({ i \in DOMAIN users : users[i][attrname] = value })

\* faulty variant: the check is skipped once an earlier validator has failed
validate_unique_attribute_shortcut(attrname, json, st) ==
    IF attrname \in DOMAIN json /\ st.errors = <<>>
    THEN IF CountUsers(attrname, json[attrname]) = 0
         THEN [st EXCEPT !.validated = Put(st.validated, attrname, json[attrname])]
         ELSE [st EXCEPT !.errors =
                   Append(st.errors, Err(attrname, "already used " \o attrname))]
    ELSE st

validate_unique_attribute(attrname, json, st) ==
    IF attrname \in DOMAIN json
    THEN IF CountUsers(attrname, json[attrname]) = 0
         THEN [st EXCEPT !.validated = Put(st.validated, attrname, json[attrname])]
         ELSE [st EXCEPT !.errors =
                   Append(st.errors, Err(attrname, "already used " \o attrname))]
    ELSE st

\* schema_create_user.objectify(request.validated) with user.password set
objectify(validated) ==
    [username |-> validated["username"], email |-> validated["email"],
     password |-> validated["password"], moderator |-> FALSE]

\* to_json_dict(user, schema_user): the public view, without the password
to_json_dict(id, user) ==
    [id |-> id, username |-> user.username, email |-> user.email]

\* DBSession.add(user); DBSession.flush(): the store after a flush that
\* succeeded.  The store checks no uniqueness of its own.
flush(user) == Append(users, user)



\* ---------------------------------------------------------------- threads
\* a request is taken in hand by the first free thread; 0 when all are busy
FreeThread ==
    IF \E t \in Threads : pc[t] = "idle"
    THEN CHOOSE t \in Threads : pc[t] = "idle" /\ \A s \in Threads : pc[s] = "idle" => t <= s
    ELSE 0

\* the token a request presents, as the response log records it
Presented(value) == [NoToken EXCEPT !.value = value]

\* the handler of thread t returns: the response is sent, the thread is free
\* token: the token the request carried, or the one it was issued
Finish(t, kind, json, response, made, userid, token) ==
    /\ out' = [kind |-> kind, json |-> json, resp |-> response, calls |-> made,
               userid |-> userid, token |-> token]
    /\ pc' = [pc EXCEPT ![t] = "idle"]
    /\ req' = [req EXCEPT ![t] = NoReq]
    /\ loc' = [loc EXCEPT ![t] = NoLoc]
    /\ calls' = [calls EXCEPT ![t] = <<>>]

\* the handler of thread t moves on to pos with locals l
Goto(t, pos, l) ==
    /\ out' = NoOut
    /\ pc' = [pc EXCEPT ![t] = pos]
    /\ loc' = [loc EXCEPT ![t] = l]

Call(op, ok) == [op |-> op, ok |-> ok]
InternalError(message) == [status |-> 500, body |-> [message |-> message]]
Forbidden == [status |-> 403, body |-> [message |-> "Forbidden"]]

\* ------------------------------------------------------------ registration
\* POST /users/register is taken in hand: validate_json_password, then
\* partial(validate_unique_attribute, "email")
RegisterStart(t) ==
    /\ out = NoOut
    /\ t = FreeThread
    /\ \E json \in RegisterJsons :
        /\ req' = [req EXCEPT ![t] = [kind |-> "register", json |-> json]]
        /\ Goto(t, "reg_username",
                validate_unique_attribute("email", json,
                                          validate_json_password(json, NoLoc)))
    /\ UNCHANGED <<users, tokens, nextToken, discourse_userid_cache, calls,
                   lookupDone>>

\* partial(validate_unique_attribute, "username")
ValidateUniqueUsername(t) ==
    /\ out = NoOut
    /\ pc[t] = "reg_username"
    /\ Goto(t, "reg_post", validate_unique_attribute("username", req[t].json, loc[t]))
    /\ UNCHANGED <<users, tokens, nextToken, discourse_userid_cache, req, calls,
                   lookupDone>>

\* the view: rejected when a validator recorded an error, otherwise
\* UserRegistrationRest.post inserts and flushes
RegisterPost(t) ==
    /\ out = NoOut
    /\ pc[t] = "reg_post"
    /\ IF loc[t].errors # <<>>
       THEN /\ users' = users
            /\ Finish(t, "register", req[t].json, ErrorResponse(400, loc[t].errors),
                      <<>>, 0, NoToken)
       ELSE \E flushed \in BOOLEAN :
            IF flushed
            THEN /\ Len(users) < MaxUsers
                 /\ users' = flush(objectify(loc[t].validated))
                 /\ Finish(t, "register", req[t].json,
                           [status |-> 200,
                            body |-> to_json_dict(Len(users) + 1,
                                                  objectify(loc[t].validated))],
                           <<>>, Len(users) + 1, NoToken)
            ELSE /\ users' = users
                 /\ Finish(t, "register", req[t].json,
                           InternalError("Error persisting user"), <<>>, 0, NoToken)
    /\ UNCHANGED <<tokens, nextToken, discourse_userid_cache, lookupDone>>

\* ---------------------------------------------------------- token service
\* the row the token store keeps for a token; the handlers never read the
\* expiry back from the store
Stored(token) == [value |-> token.value, userid |-> token.userid]

\* DBSession.query(User).filter(User.username == username).first(); 0 is None
FirstUserByName(username) ==
    IF \E i \in DOMAIN users : users[i].username = username
    THEN CHOOSE i \in DOMAIN users :
            /\ users[i].username = username
            /\ \A j \in DOMAIN users : users[j].username = username => i <= j
    ELSE 0

\* try_login(user, password, request): a token is issued iff the password matches
try_login(userid, password) == users[userid].password = password

\* the framework's authentication of a restricted view: the user id the
\* presented token belongs to, 0 when the token is not active
authenticated_userid(value) ==
    IF \E tok \in tokens : tok.value = value
    THEN (CHOOSE tok \in tokens : tok.value = value).userid
    ELSE 0

\* remove_token(extract_token(request)): deleting an absent token is a no-op
remove_token(value) == { tok \in tokens : tok.value # value }

\* int(x): truncation toward zero
Trunc(n, d) == IF n >= 0 THEN n \div d ELSE -((-n) \div d)

\* faulty variant: the expiry is rounded up to the next whole second
token_to_response_rounded(user, token) ==
    [token |-> token.value,
     username |-> user.username,
     expire |-> Trunc(token.expire - Epoch + TicksPerSecond - 1, TicksPerSecond),
     roles |-> IF user.moderator THEN <<"moderator">> ELSE <<>>]

token_to_response(user, token) ==
    [token |-> token.value,
     username |-> user.username,
     expire |-> Trunc(token.expire - Epoch, TicksPerSecond),
     roles |-> IF user.moderator THEN <<"moderator">> ELSE <<>>]

\* ------------------------------------------------------------------ login
LoginFailed == ErrorResponse(403, <<Err("user", "Login failed")>>)

\* faulty variant: an unknown username is reported as such
LoginView_leaky(userid, token, json, bridgeOk) ==
    IF token # NoToken
    THEN [resp |-> [status |-> 200, body |-> token_to_response(users[userid], token)],
          calls |-> <<>>]
    ELSE IF userid = 0
    THEN [resp |-> ErrorResponse(403, <<Err("username", "Unknown user")>>),
          calls |-> <<>>]
    ELSE [resp |-> LoginFailed, calls |-> <<>>]

\* faulty variant: `sso` alone selects the signed redirect, and bridge
\* failures are ignored
LoginView_both(userid, token, json, bridgeOk) ==
    IF token # NoToken
    THEN LET response == token_to_response(users[userid], token) IN
         IF "discourse" \in DOMAIN json
         THEN IF "sso" \in DOMAIN json
              THEN [resp |-> [status |-> 200,
                              body |-> Put(response, "redirect",
                                           <<"sso_url", userid>>)],
                    calls |-> <<Call("discourse_redirect", TRUE)>>]
              ELSE [resp |-> [status |-> 200,
                              body |-> Put(response, "redirect_internal",
                                           <<"internal_url", userid>>)],
                    calls |-> <<Call("discourse_redirect_without_nonce", TRUE)>>]
         ELSE [resp |-> [status |-> 200, body |-> response], calls |-> <<>>]
    ELSE [resp |-> LoginFailed, calls |-> <<>>]

\* UserLoginRest.post from the token on: the response and the bridge calls
\* made; bridgeOk is the outcome of the bridge call, when one is made
LoginView(userid, token, json, bridgeOk) ==
    IF token # NoToken
    THEN LET response == token_to_response(users[userid], token) IN
         IF "discourse" \in DOMAIN json
         THEN IF "sso" \in DOMAIN json /\ "sig" \in DOMAIN json
              THEN IF bridgeOk
                   THEN [resp |-> [status |-> 200,
                                   body |-> Put(response, "redirect",
                                                <<"sso_url", userid>>)],
                         calls |-> <<Call("discourse_redirect", TRUE)>>]
                   ELSE \* discourse_redirect raised, outside any try block
                        [resp |-> InternalError("discourse_redirect raised"),
                         calls |-> <<Call("discourse_redirect", FALSE)>>]
              ELSE IF bridgeOk
                   THEN [resp |-> [status |-> 200,
                                   body |-> Put(response, "redirect_internal",
                                                <<"internal_url", userid>>)],
                         calls |-> <<Call("discourse_redirect_without_nonce", TRUE)>>]
                   ELSE [resp |-> [status |-> 200, body |-> response],
                         calls |-> <<Call("discourse_redirect_without_nonce", FALSE)>>]
         ELSE [resp |-> [status |-> 200, body |-> response], calls |-> <<>>]
    ELSE [resp |-> LoginFailed, calls |-> <<>>]

\* the bridge call UserLoginRest.post makes for this request, if any
LoginBridgeCalled(issued, json) == issued /\ "discourse" \in DOMAIN json

\* POST /users/login: validate_json_password, then UserLoginRest.post
LoginPost(t) ==
    /\ out = NoOut
    /\ t = FreeThread
    /\ \E json \in LoginJsons :
        LET st == validate_json_password(json, NoLoc)
            userid == FirstUserByName(json["username"])
            issued == /\ st.errors = <<>>
                      /\ userid # 0
                      /\ try_login(userid, st.validated["password"])
        IN  /\ issued => nextToken <= MaxTokens
            /\ \E bridgeOk \in (IF LoginBridgeCalled(issued, json) THEN BOOLEAN ELSE {TRUE}),
                  expire \in (IF issued THEN Expires ELSE {0}) :
                LET token == IF issued
                             THEN [value |-> nextToken, userid |-> userid,
                                   expire |-> expire]
                             ELSE NoToken
                    view == LoginView(userid, token, json, bridgeOk)
                IN  /\ tokens' = IF issued THEN tokens \cup {Stored(token)} ELSE tokens
                    /\ nextToken' = IF issued THEN nextToken + 1 ELSE nextToken
                    /\ IF st.errors # <<>>
                       THEN Finish(t, "login", json, ErrorResponse(400, st.errors),
                                   <<>>, 0, NoToken)
                       ELSE Finish(t, "login", json, view.resp, view.calls, userid,
                                   token)
    /\ UNCHANGED <<users, discourse_userid_cache, lookupDone>>

\* ------------------------------------------------------------------ renew
\* POST /users/renew with a presented token: UserRenewRest.post
RenewPost(t) ==
    /\ out = NoOut
    /\ t = FreeThread
    /\ \E value \in 1..(nextToken - 1), renewed \in BOOLEAN, expire \in Expires :
        LET userid == authenticated_userid(value)
            token == [value |-> nextToken, userid |-> userid, expire |-> expire]
            json == [none |-> "none"]
        IN  IF userid = 0
            THEN /\ Finish(t, "renew", json, Forbidden, <<>>, 0, Presented(value))
                 /\ UNCHANGED <<tokens, nextToken>>
            ELSE IF renewed
            THEN /\ nextToken <= MaxTokens
                 /\ tokens' = remove_token(value) \cup {Stored(token)}
                 /\ nextToken' = nextToken + 1
                 /\ Finish(t, "renew", json,
                           [status |-> 200,
                            body |-> token_to_response(users[userid], token)],
                           <<>>, userid, token)
            ELSE /\ Finish(t, "renew", json, InternalError("Error renewing token"),
                           <<>>, userid, Presented(value))
                 /\ UNCHANGED <<tokens, nextToken>>
    /\ UNCHANGED <<users, discourse_userid_cache, lookupDone>>

\* ----------------------------------------------------------------- logout
\* POST /users/logout with a presented token: the framework authenticates
LogoutAuth(t) ==
    /\ out = NoOut
    /\ t = FreeThread
    /\ \E value \in 1..(nextToken - 1), json \in LogoutJsons :
        LET userid == authenticated_userid(value)
        IN  IF userid = 0
            THEN Finish(t, "logout", json, Forbidden, <<>>, 0, Presented(value))
            ELSE /\ req' = [req EXCEPT ![t] = [kind |-> "logout", json |-> json]]
                 /\ Goto(t, "logout_post",
                         [NoLoc EXCEPT !.userid = userid, !.token = value])
                 /\ calls' = calls
    /\ UNCHANGED <<users, tokens, nextToken, discourse_userid_cache, lookupDone>>

\* the rest of the handler once the token is dealt with
LogoutProceed(t) ==
    LET result == [user |-> loc[t].userid]
    IN  IF "discourse" \in DOMAIN req[t].json
        THEN /\ Goto(t, "get_client", [loc[t] EXCEPT !.result = result])
             /\ UNCHANGED <<req, calls>>
        ELSE Finish(t, "logout", req[t].json, [status |-> 200, body |-> result],
                    <<>>, loc[t].userid, Presented(loc[t].token))

\* faulty variant: revoking a token that is no longer active fails the request
LogoutRevoke_strict(t) ==
    /\ out = NoOut
    /\ pc[t] = "logout_post"
    /\ tokens' = remove_token(loc[t].token)
    /\ IF authenticated_userid(loc[t].token) = 0
       THEN Finish(t, "logout", req[t].json, InternalError("token not found"),
                   <<>>, loc[t].userid, Presented(loc[t].token))
       ELSE LogoutProceed(t)
    /\ UNCHANGED <<users, nextToken, discourse_userid_cache, lookupDone>>

\* faulty variant: with forum integration the token is left for later
LogoutRevoke_late(t) ==
    /\ out = NoOut
    /\ pc[t] = "logout_post"
    /\ tokens' = IF "discourse" \in DOMAIN req[t].json
                 THEN tokens ELSE remove_token(loc[t].token)
    /\ LogoutProceed(t)
    /\ UNCHANGED <<users, nextToken, discourse_userid_cache, lookupDone>>

\* result = {'user': userid}; remove_token(extract_token(request))
LogoutRevoke(t) ==
    /\ out = NoOut
    /\ pc[t] = "logout_post"
    /\ tokens' = remove_token(loc[t].token)
    /\ LogoutProceed(t)
    /\ UNCHANGED <<users, nextToken, discourse_userid_cache, lookupDone>>

\* the except clause of UserLogoutRest.post: log, drop, return result
LogoutExcept(t, op) ==
    Finish(t, "logout", req[t].json, [status |-> 200, body |-> loc[t].result],
           Append(calls[t], Call(op, FALSE)), loc[t].userid, Presented(loc[t].token))

\* client = get_discourse_client(request.registry.settings)
LogoutGetClient(t) ==
    /\ out = NoOut
    /\ pc[t] = "get_client"
    /\ \E ok \in BOOLEAN :
        IF ok
        THEN /\ calls' = [calls EXCEPT ![t] = Append(@, Call("get_discourse_client", TRUE))]
             /\ Goto(t, "cache_get", loc[t])
             /\ req' = req
        ELSE LogoutExcept(t, "get_discourse_client")
    /\ UNCHANGED <<users, tokens, nextToken, discourse_userid_cache, lookupDone>>

\* discourse_userid = discourse_userid_cache.get(userid); if not discourse_userid
LogoutCacheGet(t) ==
    /\ out = NoOut
    /\ pc[t] = "cache_get"
    /\ LET cached == IF loc[t].userid \in DOMAIN discourse_userid_cache
                     THEN discourse_userid_cache[loc[t].userid] ELSE 0
       IN  Goto(t, IF cached = 0 THEN "lookup" ELSE "log_out",
                [loc[t] EXCEPT !.discourse_userid = cached])
    /\ UNCHANGED <<users, tokens, nextToken, discourse_userid_cache, req, calls,
                   lookupDone>>

\* discourse_user = client.by_external_id(userid); discourse_user['id']
LogoutLookup(t) ==
    /\ out = NoOut
    /\ pc[t] = "lookup"
    /\ \E ok \in BOOLEAN :
        IF ok
        THEN /\ calls' = [calls EXCEPT ![t] = Append(@, Call("by_external_id", TRUE))]
             /\ Goto(t, "cache_set",
                     [loc[t] EXCEPT !.discourse_userid = ExternalId(loc[t].userid)])
             /\ lookupDone' = lookupDone \cup {loc[t].userid}
             /\ req' = req
        ELSE /\ LogoutExcept(t, "by_external_id")
             /\ lookupDone' = lookupDone
    /\ UNCHANGED <<users, tokens, nextToken, discourse_userid_cache>>

\* faulty variant: the resolved id is not cached
LogoutCacheSet_skip(t) ==
    /\ out = NoOut
    /\ pc[t] = "cache_set"
    /\ discourse_userid_cache' = discourse_userid_cache
    /\ Goto(t, "log_out", loc[t])
    /\ UNCHANGED <<users, tokens, nextToken, req, calls, lookupDone>>

\* faulty variant: key and value are swapped in the cache store
LogoutCacheSet_swapped(t) ==
    /\ out = NoOut
    /\ pc[t] = "cache_set"
    /\ discourse_userid_cache' =
           Put(discourse_userid_cache, loc[t].discourse_userid, loc[t].userid)
    /\ Goto(t, "log_out", loc[t])
    /\ UNCHANGED <<users, tokens, nextToken, req, calls, lookupDone>>

\* discourse_userid_cache[userid] = discourse_userid
LogoutCacheSet(t) ==
    /\ out = NoOut
    /\ pc[t] = "cache_set"
    /\ discourse_userid_cache' =
           Put(discourse_userid_cache, loc[t].userid, loc[t].discourse_userid)
    /\ Goto(t, "log_out", loc[t])
    /\ UNCHANGED <<users, tokens, nextToken, req, calls, lookupDone>>

\* client.log_out(discourse_userid); result['discourse_user'] = discourse_userid
LogoutRemote(t) ==
    /\ out = NoOut
    /\ pc[t] = "log_out"
    /\ \E ok \in BOOLEAN :
        IF ok
        THEN Finish(t, "logout", req[t].json,
                    [status |-> 200,
                     body |-> Put(loc[t].result, "discourse_user",
                                  loc[t].discourse_userid)],
                    Append(calls[t], Call("log_out", TRUE)),
                    loc[t].userid, Presented(loc[t].token))
        ELSE LogoutExcept(t, "log_out")
    /\ UNCHANGED <<users, tokens, nextToken, discourse_userid_cache, lookupDone>>

\* ---------------------------------------------------------- specification
Init ==
    /\ users = SeedUsers
    /\ tokens = {}
    /\ nextToken = 1
    /\ discourse_userid_cache = [u \in {} |-> 0]
    /\ pc = [t \in Threads |-> "idle"]
    /\ req = [t \in Threads |-> NoReq]
    /\ loc = [t \in Threads |-> NoLoc]
    /\ calls = [t \in Threads |-> <<>>]
    /\ out = NoOut
    /\ lookupDone = {}

\* the response leaves the server
Deliver ==
    /\ out # NoOut
    /\ out' = NoOut
    /\ UNCHANGED <<users, tokens, nextToken, discourse_userid_cache, pc, req, loc,
                   calls, lookupDone>>

\* requests are handled concurrently
Next ==
    \/ \E t \in Threads : RegisterStart(t)
    \/ \E t \in Threads : ValidateUniqueUsername(t)
    \/ \E t \in Threads : RegisterPost(t)
    \/ \E t \in Threads : LoginPost(t)
    \/ \E t \in Threads : RenewPost(t)
    \/ \E t \in Threads : LogoutAuth(t)
    \/ \E t \in Threads : LogoutRevoke(t)
    \/ \E t \in Threads : LogoutGetClient(t)
    \/ \E t \in Threads : LogoutCacheGet(t)
    \/ \E t \in Threads : LogoutLookup(t)
    \/ \E t \in Threads : LogoutCacheSet(t)
    \/ \E t \in Threads : LogoutRemote(t)
    \/ Deliver

Spec == Init /\ [][Next]_vars

\* no other request is in hand when thread t takes a step
Alone(t) == \A s \in Threads \ {t} : pc[s] = "idle"

\* requests are handled one after the other
NextSeq ==
    \/ \E t \in Threads : Alone(t) /\ RegisterStart(t)
    \/ \E t \in Threads : Alone(t) /\ ValidateUniqueUsername(t)
    \/ \E t \in Threads : Alone(t) /\ RegisterPost(t)
    \/ \E t \in Threads : Alone(t) /\ LoginPost(t)
    \/ \E t \in Threads : Alone(t) /\ RenewPost(t)
    \/ \E t \in Threads : Alone(t) /\ LogoutAuth(t)
    \/ \E t \in Threads : Alone(t) /\ LogoutRevoke(t)
    \/ \E t \in Threads : Alone(t) /\ LogoutGetClient(t)
    \/ \E t \in Threads : Alone(t) /\ LogoutCacheGet(t)
    \/ \E t \in Threads : Alone(t) /\ LogoutLookup(t)
    \/ \E t \in Threads : Alone(t) /\ LogoutCacheSet(t)
    \/ \E t \in Threads : Alone(t) /\ LogoutRemote(t)
    \/ Deliver

SpecSeq == Init /\ [][NextSeq]_vars

\* ------------------------------------------------------------- properties
Login == out.kind = "login"
Logout == out.kind = "logout"
Body == out.resp.body
OptsIn(json) == "discourse" \in DOMAIN json
Signed(json) == "sso" \in DOMAIN json /\ "sig" \in DOMAIN json

\* the request names a stored user and carries that user's password
CorrectCredentials(json) ==
    /\ "password" \in DOMAIN json
    /\ json["password"] # NonString
    /\ FirstUserByName(json["username"]) # 0
    /\ users[FirstUserByName(json["username"])].password = Encode(json["password"])

\* the request passes validation but not the credential check
WrongCredentials(json) ==
    /\ "password" \in DOMAIN json
    /\ json["password"] # NonString
    /\ ~CorrectCredentials(json)

\* the positions of the logout handler inside its try block
InTry == {"get_client", "cache_get", "lookup", "cache_set", "log_out"}

Revoked(value) == \A tok \in tokens : tok.value # value

\* C1: a login with correct credentials that opts into forum integration
\* returns the success response with token, username, expire and roles,
\* whatever the bridge call does, on the signed path and on the
\* redirect-without-nonce path alike.
C1_LoginSurvivesBridgeFailure ==
    (Login /\ CorrectCredentials(out.json) /\ OptsIn(out.json))
        => /\ out.resp.status = 200
           /\ {"token", "username", "expire", "roles"} \subseteq DOMAIN Body

\* C2: an authenticated logout returns a success body with `user` whatever
\* step of the forum integration fails; the token is revoked before any
\* provider call, so it is revoked wherever a call is pending or has failed;
\* `discourse_user` is in the response only if the remote log_out succeeded.
C2_LogoutIsolated ==
    /\ \A t \in Threads : pc[t] \in InTry => Revoked(loc[t].token)
    /\ (Logout /\ out.userid # 0)
        => /\ out.resp.status = 200
           /\ "user" \in DOMAIN Body
           /\ Body["user"] = out.userid
           /\ Revoked(out.token.value)
           /\ "discourse_user" \in DOMAIN Body
                => /\ out.calls # <<>>
                   /\ out.calls[Len(out.calls)] = Call("log_out", TRUE)

C2_Witness ==
    /\ Logout
    /\ out.resp.status = 200
    /\ out.calls # <<>>
    /\ out.calls[Len(out.calls)] = Call("by_external_id", FALSE)
    /\ "discourse_user" \notin DOMAIN Body

\* C3: no two stored users have the same username and no two stored users
\* have the same email, after any interleaving of registration requests.
C3_UniqueUsers ==
    \A i, j \in DOMAIN users :
        i # j => /\ users[i].username # users[j].username
                 /\ users[i].email # users[j].email

\* C4: a registration whose email or username exists in the store when its
\* existence check runs gets an error on that field, whatever errors it
\* already has; a missing or unencodable password gets an error on
\* `password`; errors are kept until the view; and a request with an error
\* is rejected with all its errors and leaves the store unchanged.
C4_RegistrationRejected ==
    [][\A t \in Threads :
        /\ (pc[t] = "idle" /\ pc'[t] = "reg_username")
            => LET json == req'[t].json IN
               /\ CountUsers("email", json["email"]) > 0
                    => HasErr(loc'[t].errors, "email")
               /\ ("password" \notin DOMAIN json \/ json["password"] = NonString)
                    => HasErr(loc'[t].errors, "password")
        /\ (pc[t] = "reg_username" /\ pc'[t] = "reg_post")
            => /\ CountUsers("username", req[t].json["username"]) > 0
                    => HasErr(loc'[t].errors, "username")
               /\ \A f \in {"password", "email"} :
                    HasErr(loc[t].errors, f) => HasErr(loc'[t].errors, f)
        /\ (pc[t] = "reg_post" /\ pc'[t] = "idle" /\ loc[t].errors # <<>>)
            => /\ users' = users
               /\ out'.resp.status = 400
               /\ out'.resp.body["errors"] = loc[t].errors
      ]_vars

C4_Witness ==
    /\ out.kind = "register"
    /\ out.resp.status = 400
    /\ users = SeedUsers
    /\ \A f \in {"password", "email", "username"} : HasErr(Body["errors"], f)

\* C5: a login with an unknown username and a login with a wrong password
\* get the same response, status 403 with the single error (`user`,
\* `Login failed`); no token is issued and the bridge is not called.
C5_LoginFailureUniform ==
    [][(out'.kind = "login" /\ out.kind = "none" /\ WrongCredentials(out'.json))
        => /\ out'.resp =
                [status |-> 403,
                 body |-> [status |-> "error",
                           errors |-> << [location |-> "body", field |-> "user",
                                          msg |-> "Login failed"] >>]]
           /\ out'.token = NoToken
           /\ tokens' = tokens
           /\ nextToken' = nextToken
           /\ out'.calls = <<>>
      ]_vars

C5_Witness ==
    /\ Login
    /\ WrongCredentials(out.json)
    /\ FirstUserByName(out.json["username"]) = 0
    /\ out.resp.status = 403

\* C6: when logouts are handled one after the other, by_external_id is not
\* called for a user id whose lookup has already succeeded, and a logout
\* for such a user id takes the external id from the cache.
C6_LookupOnce ==
    [][\A t \in Threads :
        /\ (pc[t] = "lookup" /\ pc'[t] # "lookup")
            => loc[t].userid \notin lookupDone
        /\ (pc[t] = "cache_get" /\ pc'[t] # "cache_get"
                /\ loc[t].userid \in lookupDone)
            => /\ pc'[t] = "log_out"
               /\ loc'[t].discourse_userid = ExternalId(loc[t].userid)
      ]_vars

C6_Witness ==
    /\ Logout
    /\ out.userid \in lookupDone
    /\ out.calls = <<Call("get_discourse_client", TRUE), Call("log_out", TRUE)>>
    /\ Body["discourse_user"] = ExternalId(out.userid)

\* C7: a successful login or renewal answers with the value of the token it
\* issued, the user's username, the token's expiry minus the epoch in whole
\* seconds, and roles ["moderator"] exactly when the user is a moderator.
C7_TokenResponse ==
    (out.kind \in {"login", "renew"} /\ out.resp.status = 200)
        => LET tok == out.token
               user == users[tok.userid]
           IN  /\ Stored(tok) \in tokens
               /\ Body["token"] = tok.value
               /\ Body["username"] = user.username
               /\ Body["expire"] * TicksPerSecond <= tok.expire - Epoch
               /\ tok.expire - Epoch < (Body["expire"] + 1) * TicksPerSecond
               /\ Body["roles"] = IF user.moderator THEN <<"moderator">> ELSE <<>>

C7_Witness ==
    /\ Login
    /\ out.resp.status = 200
    /\ ~users[out.token.userid].moderator
    /\ (out.token.expire - Epoch) % TicksPerSecond # 0
    /\ Body["roles"] = <<>>

\* C8: in a successful login response `redirect` is present only for a
\* request that opts in with both `sso` and `sig`, `redirect_internal` only
\* for one that opts in without both and whose redirect-without-nonce call
\* succeeded, never both; a request that does not opt in gets neither and
\* makes no bridge call.
C8_RedirectFields ==
    (Login /\ out.resp.status = 200)
        => /\ "redirect" \in DOMAIN Body
                => OptsIn(out.json) /\ Signed(out.json)
           /\ "redirect_internal" \in DOMAIN Body
                => /\ OptsIn(out.json) /\ ~Signed(out.json)
                   /\ out.calls = <<Call("discourse_redirect_without_nonce", TRUE)>>
           /\ ~("redirect" \in DOMAIN Body /\ "redirect_internal" \in DOMAIN Body)
           /\ ~OptsIn(out.json)
                => /\ "redirect" \notin DOMAIN Body
                   /\ "redirect_internal" \notin DOMAIN Body
                   /\ out.calls = <<>>

C8_Witness ==
    /\ Login
    /\ out.resp.status = 200
    /\ OptsIn(out.json)
    /\ "sso" \in DOMAIN out.json
    /\ "redirect_internal" \in DOMAIN Body

\* C9: a logout that passed authentication and whose token has been removed
\* in the meantime by another logout leaves the set of active tokens as it
\* is and goes on to the success body.
C9_LogoutIdempotent ==
    [][\A t \in Threads :
        (pc[t] = "logout_post" /\ pc'[t] # "logout_post" /\ Revoked(loc[t].token))
            => /\ tokens' = tokens
               /\ \/ /\ pc'[t] = "get_client"
                     /\ loc'[t].result = [user |-> loc[t].userid]
                  \/ /\ out'.kind = "logout"
                     /\ out'.resp = [status |-> 200, body |-> [user |-> loc[t].userid]]
      ]_vars

C9_Witness ==
    /\ \A t \in Threads : pc[t] = "get_client"
    /\ \A s, t \in Threads : loc[s].token = loc[t].token

\* C10: under any interleaving of logouts a cache entry, once written, is
\* never removed and never changes, the entry of user id u holds u's
\* external id, and a failed lookup leaves the cache unchanged.
C10_CacheStable ==
    [][/\ \A u \in DOMAIN discourse_userid_cache :
            /\ u \in DOMAIN discourse_userid_cache'
            /\ discourse_userid_cache'[u] = discourse_userid_cache[u]
       /\ \A u \in DOMAIN discourse_userid_cache' :
            discourse_userid_cache'[u] = ExternalId(u)
       /\ \A t \in Threads :
            (pc[t] = "lookup" /\ pc'[t] = "idle")
                => discourse_userid_cache' = discourse_userid_cache
      ]_vars

C10_Witness ==
    \E t \in Threads :
        /\ pc[t] = "cache_set"
        /\ loc[t].userid \in DOMAIN discourse_userid_cache

====
